---- MODULE Spec2Model ----
(***************************************************************************)
(* NamedLocationsClient (msgraph/namedlocations.go): typed operations      *)
(* translated into one HTTP round trip each through the base client, and   *)
(* the JSON responses decoded back into typed named locations.             *)
(*                                                                         *)
(* Encoding of Go values:                                                  *)
(*   - a pointer is a sequence of length 0 (nil) or 1 (the value held);    *)
(*   - a *string discriminator is a string, NilType standing for nil;      *)
(*   - a *string ID is a number of IDs, NoId standing for nil;             *)
(*   - an error is a BOOLEAN (TRUE: non-nil error).                        *)
(***************************************************************************)
EXTENDS Integers, Sequences, FiniteSets, TLC

\* ------------------------------------------------------------- bounds
\* Number of identifiers the remote service can assign.
MaxIds == 2
\* Longest "value" array of a List response drawn from the wire.
MaxList == 2

\* ---------------------------------------------------------- constants
StatusOK == 200
StatusCreated == 201
StatusNoContent == 204

TypeCountry == "#microsoft.graph.countryNamedLocation"
TypeIP == "#microsoft.graph.ipNamedLocation"
\* A discriminator the client has no model for.
TypeOther == "#microsoft.graph.compliantNetworkNamedLocation"
\* nil *string discriminator (the JSON field absent or null).
NilType == "<nil>"
\* A JSON "@odata.type" that is not a string (wire only).
BadType == "<not-a-string>"

IDs == 1..MaxIds
\* nil *string ID (the JSON field absent).
NoId == 0
\* A JSON "id" that is not a string (wire only).
BadId == MaxIds + 1

\* ------------------------------------------------------------- values
\* A named location as a Go value: kind is the Go type holding it.
Location(kind, otype, id) == [kind |-> kind, ODataType |-> otype, ID |-> id]

\* A JSON value standing where a named location is expected.
JsonObject(otype, id) == [shape |-> "object", otype |-> otype, id |-> id]
JsonNumber == [shape |-> "number", otype |-> NilType, id |-> NoId]

\* A response body as ioutil.ReadAll and the first json.Unmarshal see it:
\*   form "readerr"   the body cannot be read to its end
\*   form "malformed" the bytes are no JSON object
\*   form "list"      a JSON object; value is its "value" array as a pointer
\*   form "object"    a JSON object holding one resource (obj)
\*   form "empty"     no content
Body(form, value, obj) == [form |-> form, value |-> value, obj |-> obj]
EmptyBody == Body("empty", << >>, JsonNumber)
ListBody(value) == Body("list", value, JsonNumber)
ObjectBody(obj) == Body("object", << >>, obj)
\* The JSON document of an error answer: an object with neither a
\* discriminator nor an id of a named location.
ErrorBody == ObjectBody(JsonObject(NilType, NoId))

\* What the HTTP transport hands to the base client for one request.
Response(transport, status, body) ==
    [transport |-> transport, status |-> status, body |-> body]
NoResponse == Response(FALSE, 0, EmptyBody)

Request(method, id, filter, body, valid) ==
    [method |-> method, id |-> id, filter |-> filter, body |-> body, valid |-> valid]

\* ------------------------------------------------------- encoding/json
\* json.Marshal of a named location: nil pointers are omitted, the Go type
\* is not part of the document.
Marshal(loc) == JsonObject(loc.ODataType, loc.ID)

\* UnmarshalOData rejecting a discriminator it has no model for.
UnmarshalODataStrict(raw) ==
    [err |-> raw.shape # "object" \/ raw.otype \in {BadType, TypeOther},
     Type |-> raw.otype]

\* json.Unmarshal(raw, &o) with o an odata.OData: only the discriminator is
\* read; it fails when raw is no object or the discriminator is no string.
UnmarshalOData(raw) ==
    [err |-> raw.shape # "object" \/ raw.otype = BadType, Type |-> raw.otype]

\* UnmarshalLocation decoding every document into the IP model.
UnmarshalLocationAsIP(raw, kind) ==
    [err |-> raw.shape # "object" \/ raw.otype = BadType \/ raw.id = BadId,
     loc |-> Location("ip", raw.otype, raw.id)]

\* json.Unmarshal(raw, &loc) with loc a named location of Go type kind.
UnmarshalLocation(raw, kind) ==
    [err |-> raw.shape # "object" \/ raw.otype = BadType \/ raw.id = BadId,
     loc |-> Location(kind, raw.otype, raw.id)]

\* json.Unmarshal(respBody, &loc) on a whole response body.
UnmarshalBody(body, kind) ==
    CASE body.form = "object" -> UnmarshalLocation(body.obj, kind)
      [] body.form = "list" -> [err |-> FALSE, loc |-> Location(kind, NilType, NoId)]
      [] OTHER -> [err |-> TRUE, loc |-> Location(kind, NilType, NoId)]

\* json.Unmarshal(respBody, &data) with data.NamedLocations *[]json.RawMessage.
UnmarshalList(body) ==
    CASE body.form = "list" -> [err |-> FALSE, value |-> body.value]
      [] body.form = "object" -> [err |-> FALSE, value |-> << >>]
      [] OTHER -> [err |-> TRUE, value |-> << >>]

\* ---------------------------------------------------------- base client
\* One round trip of the base client: the error is non-nil when the
\* transport failed or the status is not among the request's valid codes.
Do(req, resp) ==
    IF resp.transport
    THEN [status |-> 0, err |-> TRUE]
    ELSE [status |-> resp.status, err |-> resp.status \notin req.valid]

\* What a handler returns, with the requests it handed to the base client
\* (sent) and its own parameter as it stands at the end of the call (param).
NoArg == Location("", NilType, NoId)
Result(sent, ret, status, err) ==
    [sent |-> sent, ret |-> ret, status |-> status, err |-> err,
     panic |-> FALSE, param |-> NoArg]
Panic(sent) ==
    [sent |-> sent, ret |-> << >>, status |-> 0, err |-> FALSE,
     panic |-> TRUE, param |-> NoArg]
WithParam(res, param) == [res EXCEPT !.param = param]

\* ------------------------------------------------------------ handlers
\* Entity "/identity/conditionalAccess/namedLocations" with the $filter
\* parameter added when the filter is not empty.
ListRequest(filter) == Request("GET", NoId, filter, << >>, {StatusOK})

\* ListLoop with the country case decoding without appending.
RECURSIVE ListLoopDropsCountry(_, _)
ListLoopDropsCountry(elems, ret) ==
    IF elems = << >>
    THEN [err |-> FALSE, ret |-> ret]
    ELSE LET raw == Head(elems)
             o == UnmarshalOData(raw)
         IN  IF o.err
             THEN [err |-> TRUE, ret |-> << >>]
             ELSE IF o.Type = TypeIP
             THEN LET d == UnmarshalLocation(raw, "ip")
                  IN  IF d.err
                      THEN [err |-> TRUE, ret |-> << >>]
                      ELSE ListLoopDropsCountry(Tail(elems), Append(ret, d.loc))
             ELSE IF o.Type = TypeCountry /\ UnmarshalLocation(raw, "country").err
             THEN [err |-> TRUE, ret |-> << >>]
             ELSE ListLoopDropsCountry(Tail(elems), ret)

\* The loop matching each element of the value array to its model: ret is
\* the slice built so far; a failed json.Unmarshal ends the whole call.
RECURSIVE ListLoop(_, _)
ListLoop(elems, ret) ==
    IF elems = << >>
    THEN [err |-> FALSE, ret |-> ret]
    ELSE LET raw == Head(elems)
             o == UnmarshalOData(raw)
         IN  IF o.err
             THEN [err |-> TRUE, ret |-> << >>]
             ELSE IF o.Type = NilType
             THEN ListLoop(Tail(elems), ret)
             ELSE IF o.Type = TypeCountry
             THEN LET d == UnmarshalLocation(raw, "country")
                  IN  IF d.err
                      THEN [err |-> TRUE, ret |-> << >>]
                      ELSE ListLoop(Tail(elems), Append(ret, d.loc))
             ELSE IF o.Type = TypeIP
             THEN LET d == UnmarshalLocation(raw, "ip")
                  IN  IF d.err
                      THEN [err |-> TRUE, ret |-> << >>]
                      ELSE ListLoop(Tail(elems), Append(ret, d.loc))
             ELSE ListLoop(Tail(elems), ret)

\* List returning a nil pointer when the body has no value array.
ListNilOnNoValue(filter, resp) ==
    LET req == ListRequest(filter)
        r == Do(req, resp)
        data == UnmarshalList(resp.body)
    IN  IF r.err \/ resp.body.form = "readerr" \/ data.err
        THEN Result(<<req>>, << >>, r.status, TRUE)
        ELSE IF data.value = << >>
        THEN Result(<<req>>, << >>, r.status, FALSE)
        ELSE LET l == ListLoop(data.value[1], << >>)
             IN  IF l.err
                 THEN Result(<<req>>, << >>, r.status, TRUE)
                 ELSE Result(<<req>>, <<l.ret>>, r.status, FALSE)

\* List returns a list of Named Locations, optionally filtered using OData.
List(filter, resp) ==
    LET req == ListRequest(filter)
        r == Do(req, resp)
        data == UnmarshalList(resp.body)
    IN  IF r.err
        THEN Result(<<req>>, << >>, r.status, TRUE)
        ELSE IF resp.body.form = "readerr"
        THEN Result(<<req>>, << >>, r.status, TRUE)
        ELSE IF data.err
        THEN Result(<<req>>, << >>, r.status, TRUE)
        ELSE IF data.value = << >>
        THEN Result(<<req>>, << << >> >>, r.status, FALSE)
        ELSE LET l == ListLoop(data.value[1], << >>)
             IN  IF l.err
                 THEN Result(<<req>>, << >>, r.status, TRUE)
                 ELSE Result(<<req>>, <<l.ret>>, r.status, FALSE)

DeleteRequest(id) == Request("DELETE", id, "", << >>, {StatusNoContent})

\* Delete handing the request to the base client once more when the first
\* round trip fails.
DeleteRetries(id, resp) ==
    LET req == DeleteRequest(id)
        r == Do(req, resp)
    IN  IF r.err
        THEN Result(<<req, req>>, << >>, r.status, r.err)
        ELSE Result(<<req>>, << >>, r.status, r.err)

\* Delete removes a Named Location.
Delete(id, resp) ==
    LET req == DeleteRequest(id)
        r == Do(req, resp)
    IN  Result(<<req>>, << >>, r.status, r.err)

\* The tail shared by the handlers that return a resource: read the body
\* and decode it into a named location of the handler's Go type.
DecodeResponse(req, r, resp, kind) ==
    LET d == UnmarshalBody(resp.body, kind)
    IN  IF r.err
        THEN Result(<<req>>, << >>, r.status, TRUE)
        ELSE IF resp.body.form = "readerr"
        THEN Result(<<req>>, << >>, r.status, TRUE)
        ELSE IF d.err
        THEN Result(<<req>>, << >>, r.status, TRUE)
        ELSE Result(<<req>>, <<d.loc>>, r.status, FALSE)

\* The handler's parameter after the discriminator of the operation has
\* been assigned to it.
SetODataType(loc, otype) == [loc EXCEPT !.ODataType = otype]

\* The argument is passed by value: the assignment to the parameter does
\* not reach the caller's copy.
CallerCopy(arg, param) == arg

\* CreateIPRequest setting the discriminator only when the argument has none.
CreateIPRequestKeepsType(arg) ==
    Request("POST", NoId, "",
            <<Marshal(IF arg.ODataType = NilType THEN SetODataType(arg, TypeIP) ELSE arg)>>,
            {StatusCreated})

CreateIPRequest(arg) ==
    Request("POST", NoId, "", <<Marshal(SetODataType(arg, TypeIP))>>, {StatusCreated})

\* CreateIP creates a new IP Named Location.
CreateIP(arg, resp) ==
    LET req == CreateIPRequest(arg)
    IN  WithParam(DecodeResponse(req, Do(req, resp), resp, "ip"),
                  SetODataType(arg, TypeIP))

CreateCountryRequest(arg) ==
    Request("POST", NoId, "", <<Marshal(SetODataType(arg, TypeCountry))>>, {StatusCreated})

\* CreateCountry creates a new Country Named Location.
CreateCountry(arg, resp) ==
    LET req == CreateCountryRequest(arg)
    IN  WithParam(DecodeResponse(req, Do(req, resp), resp, "country"),
                  SetODataType(arg, TypeCountry))

\* GetIPRequest accepting 404 as a valid status.
GetIPRequestAccepts404(id) == Request("GET", id, "", << >>, {StatusOK, 404})

GetIPRequest(id) == Request("GET", id, "", << >>, {StatusOK})

\* GetIP retrieves an IP Named Location.
GetIP(id, resp) ==
    LET req == GetIPRequest(id)
    IN  DecodeResponse(req, Do(req, resp), resp, "ip")

\* GetCountryRequest addressing the collection instead of the resource.
GetCountryRequestNoId(id) == Request("GET", NoId, "", << >>, {StatusOK})

GetCountryRequest(id) == Request("GET", id, "", << >>, {StatusOK})

\* GetCountry retrieves an Country Named Location.
GetCountry(id, resp) ==
    LET req == GetCountryRequest(id)
    IN  DecodeResponse(req, Do(req, resp), resp, "country")

\* UpdateIPRequest accepting 200 besides 204.
UpdateIPRequestAccepts200(arg) ==
    Request("PATCH", arg.ID, "", <<Marshal(SetODataType(arg, TypeIP))>>,
            {StatusOK, StatusNoContent})

UpdateIPRequest(arg) ==
    Request("PATCH", arg.ID, "", <<Marshal(SetODataType(arg, TypeIP))>>, {StatusNoContent})

\* UpdateIP amends an existing IP Named Location. The URL is formatted from
\* *ipNamedLocation.ID before the base client is called: a nil ID panics.
UpdateIP(arg, resp) ==
    LET req == UpdateIPRequest(arg)
        r == Do(req, resp)
    IN  WithParam(IF arg.ID = NoId
                  THEN Panic(<< >>)
                  ELSE Result(<<req>>, << >>, r.status, r.err),
                  SetODataType(arg, TypeIP))

UpdateCountryRequest(arg) ==
    Request("PATCH", arg.ID, "", <<Marshal(SetODataType(arg, TypeCountry))>>, {StatusNoContent})

\* UpdateCountry amends an existing Country Named Location.
UpdateCountry(arg, resp) ==
    LET req == UpdateCountryRequest(arg)
        r == Do(req, resp)
    IN  WithParam(IF arg.ID = NoId
                  THEN Panic(<< >>)
                  ELSE Result(<<req>>, << >>, r.status, r.err),
                  SetODataType(arg, TypeCountry))

\* ------------------------------------------------------- remote service
\* The remote service holds the named locations: store[i] is the
\* discriminator of the resource held under identifier i, NilType when
\* there is none.
FilterAll == ""
FilterIP == "isof('microsoft.graph.ipNamedLocation')"
Filters == {FilterAll, FilterIP}

Matches(otype, filter) == filter = FilterAll \/ otype = TypeIP

\* The resources held under the identifiers from..MaxIds that match the
\* filter, by ascending identifier.
RECURSIVE Listing(_, _, _)
Listing(st, filter, from) ==
    IF from > MaxIds
    THEN << >>
    ELSE IF st[from] # NilType /\ Matches(st[from], filter)
    THEN <<JsonObject(st[from], from)>> \o Listing(st, filter, from + 1)
    ELSE Listing(st, filter, from + 1)

Reply(st, status, body) == [store |-> st, status |-> status, body |-> body]

\* What the service does with a request it receives; newId is the
\* identifier it assigns to a resource it creates.
Answer(st, req, newId) ==
    CASE req.method = "GET" /\ req.id = NoId ->
           Reply(st, 200, ListBody(<<Listing(st, req.filter, 1)>>))
      [] req.method = "GET" /\ req.id # NoId ->
           IF st[req.id] # NilType
           THEN Reply(st, 200, ObjectBody(JsonObject(st[req.id], req.id)))
           ELSE Reply(st, 404, ErrorBody)
      [] req.method = "POST" ->
           IF req.body[1].otype \in {TypeIP, TypeCountry}
           THEN Reply([st EXCEPT ![newId] = req.body[1].otype], 201,
                      ObjectBody(JsonObject(req.body[1].otype, newId)))
           ELSE Reply(st, 400, ErrorBody)
      [] req.method = "PATCH" ->
           IF st[req.id] = NilType
           THEN Reply(st, 404, ErrorBody)
           ELSE IF st[req.id] # req.body[1].otype
           THEN Reply(st, 400, ErrorBody)
           ELSE Reply(st, 204, EmptyBody)
      [] req.method = "DELETE" ->
           IF st[req.id] # NilType
           THEN Reply([st EXCEPT ![req.id] = NilType], 204, EmptyBody)
           ELSE Reply(st, 404, ErrorBody)

\* How one round trip can go:
\*   "none"        the service receives the request and its answer arrives
\*   "lost"        the request never reaches the service
\*   "dropped"     the service handles the request, its answer never arrives
\*   "unavailable" the service refuses the request with 503
\* A request that changes nothing at the service is dropped as it is lost.
Faults == {"none", "lost", "dropped", "unavailable"}
ReadFaults == {"none", "lost", "unavailable"}

\* The service's store after the round trip and the response the base
\* client gets.
Serve(st, req, fault, newId) ==
    LET a == Answer(st, req, newId)
    IN  CASE fault = "none" ->
               [store |-> a.store, resp |-> Response(FALSE, a.status, a.body)]
          [] fault = "lost" ->
               [store |-> st, resp |-> Response(TRUE, 0, EmptyBody)]
          [] fault = "dropped" ->
               [store |-> a.store, resp |-> Response(TRUE, 0, EmptyBody)]
          [] fault = "unavailable" ->
               [store |-> st, resp |-> Response(FALSE, 503, ErrorBody)]

\* ---------------------------------------------------------------- state
VARIABLES
    store,    \* the remote service's named locations
    last,     \* the last call of the client: its inputs, round trip and results
    known,    \* known[i]: Go kind of the resource a Create returned under i,
              \*   "" once a Delete of i has succeeded (history)
    deleted,  \* identifiers whose Delete succeeded, no resource created
              \*   under them since (history)
    clean,    \* every Create and Delete so far has succeeded (history)
    wire      \* the response the transport holds for the next request, when
              \*   it is drawn from the wire instead of the remote service

vars == <<store, last, known, deleted, clean, wire>>

\* The arguments a caller can hand to a Create or an Update of Go type kind.
Args(kind) ==
    {Location(kind, t, i) : t \in {NilType, TypeIP, TypeCountry, TypeOther},
                            i \in IDs \cup {NoId}}

\* The arguments drawn against the remote service: a new location carries
\* no ID, an existing one may carry any; the discriminator is left nil or
\* set to the type the operation is not about.
OtherTypeOf(kind) == IF kind = "ip" THEN TypeCountry ELSE TypeIP
NewArgs(kind) == {Location(kind, t, NoId) : t \in {NilType, OtherTypeOf(kind)}}
HeldArgs(kind) == {Location(kind, NilType, i) : i \in IDs \cup {NoId}}

Call(op, id, filter, arg, resp, res) ==
    [op |-> op, id |-> id, filter |-> filter, arg |-> arg,
     caller |-> CallerCopy(arg, res.param), resp |-> resp,
     sent |-> res.sent, ret |-> res.ret, status |-> res.status,
     err |-> res.err, panic |-> res.panic]

Init ==
    /\ store = [i \in IDs |-> NilType]
    /\ last = Call("", NoId, FilterAll, NoArg, NoResponse,
                   Result(<< >>, << >>, 0, FALSE))
    /\ known = [i \in IDs |-> ""]
    /\ deleted = {}
    /\ clean = TRUE
    /\ wire = NoResponse

Creates == {"CreateIP", "CreateCountry"}
Gets == {"GetIP", "GetCountry"}
Updates == {"UpdateIP", "UpdateCountry"}
KindOf(op) == IF op \in {"CreateIP", "GetIP", "UpdateIP"} THEN "ip" ELSE "country"

\* The operation op of the client applied to its inputs and to the response
\* its round trip gets.
Handle(op, id, filter, arg, resp) ==
    CASE op = "List" -> List(filter, resp)
      [] op = "Delete" -> Delete(id, resp)
      [] op = "CreateIP" -> CreateIP(arg, resp)
      [] op = "CreateCountry" -> CreateCountry(arg, resp)
      [] op = "GetIP" -> GetIP(id, resp)
      [] op = "GetCountry" -> GetCountry(id, resp)
      [] op = "UpdateIP" -> UpdateIP(arg, resp)
      [] op = "UpdateCountry" -> UpdateCountry(arg, resp)

\* One call of the client against the remote service: the request the
\* service receives is the one the handler hands to the base client. A
\* panic ends the program: no call follows it.
Round(op, id, filter, arg, fault, newId) ==
    LET probe == Handle(op, id, filter, arg, NoResponse).sent
        sv == IF probe = << >>
              THEN [store |-> store, resp |-> NoResponse]
              ELSE Serve(store, probe[1], fault, newId)
        res == Handle(op, id, filter, arg, sv.resp)
        made == {i \in IDs : store[i] = NilType /\ sv.store[i] # NilType}
        ok == ~res.err /\ ~res.panic
    IN  /\ store' = sv.store
        /\ last' = Call(op, id, filter, arg, sv.resp, res)
        /\ known' = IF op \in Creates /\ ok /\ res.ret # << >> /\ res.ret[1].ID \in IDs
                    THEN [known EXCEPT ![res.ret[1].ID] = KindOf(op)]
                    ELSE IF op = "Delete" /\ ok
                    THEN [known EXCEPT ![id] = ""]
                    ELSE known
        /\ deleted' = IF op = "Delete" /\ ok /\ res.status = 204
                      THEN deleted \cup {id}
                      ELSE deleted \ made
        /\ clean' = (clean /\ (op \in Creates \cup {"Delete"} => ok))
        /\ UNCHANGED wire

\* The identifiers the service can assign to a resource it creates: any it
\* holds no resource under (an identifier is free again once its resource
\* is deleted).
Free == {i \in IDs : store[i] = NilType}

SvcList ==
    /\ ~last.panic
    /\ \E filter \in Filters, fault \in ReadFaults :
           Round("List", NoId, filter, NoArg, fault, NoId)

SvcDelete ==
    /\ ~last.panic
    /\ \E id \in IDs, fault \in Faults :
           Round("Delete", id, FilterAll, NoArg, fault, NoId)

SvcCreateIP ==
    /\ ~last.panic
    /\ \E arg \in NewArgs("ip"), fault \in Faults, newId \in Free :
           Round("CreateIP", NoId, FilterAll, arg, fault, newId)

SvcCreateCountry ==
    /\ ~last.panic
    /\ \E arg \in NewArgs("country"), fault \in Faults, newId \in Free :
           Round("CreateCountry", NoId, FilterAll, arg, fault, newId)

SvcGetIP ==
    /\ ~last.panic
    /\ \E id \in IDs, fault \in ReadFaults :
           Round("GetIP", id, FilterAll, NoArg, fault, NoId)

SvcGetCountry ==
    /\ ~last.panic
    /\ \E id \in IDs, fault \in ReadFaults :
           Round("GetCountry", id, FilterAll, NoArg, fault, NoId)

SvcUpdateIP ==
    /\ ~last.panic
    /\ \E arg \in HeldArgs("ip"), fault \in ReadFaults :
           Round("UpdateIP", arg.ID, FilterAll, arg, fault, NoId)

SvcUpdateCountry ==
    /\ ~last.panic
    /\ \E arg \in HeldArgs("country"), fault \in ReadFaults :
           Round("UpdateCountry", arg.ID, FilterAll, arg, fault, NoId)

Next ==
    \/ SvcList
    \/ SvcDelete
    \/ SvcCreateIP
    \/ SvcCreateCountry
    \/ SvcGetIP
    \/ SvcGetCountry
    \/ SvcUpdateIP
    \/ SvcUpdateCountry

Spec == Init /\ [][Next]_vars

\* ------------------------------------------------------------- the wire
\* The handlers applied to any response the transport can deliver: the
\* response is drawn first, one call then consumes it.
WireStatuses == {200, 201, 204, 404, 503}

Elements ==
    {JsonNumber} \cup
    {JsonObject(t, i) : t \in {TypeCountry, TypeIP, TypeOther, NilType, BadType},
                        i \in IDs \cup {NoId, BadId}}

Arrays == UNION {[1..n -> Elements] : n \in 0..MaxList}

ListBodies ==
    {Body("readerr", << >>, JsonNumber), Body("malformed", << >>, JsonNumber),
     ListBody(<< >>)} \cup {ListBody(<<a>>) : a \in Arrays}

ResourceBodies ==
    {Body("readerr", << >>, JsonNumber), Body("malformed", << >>, JsonNumber),
     ListBody(<< >>)} \cup {ObjectBody(e) : e \in Elements}

TransportFailure == Response(TRUE, 0, EmptyBody)

WireResponses(bodies) ==
    {TransportFailure} \cup {Response(FALSE, s, b) : s \in WireStatuses, b \in bodies}

InitWire ==
    /\ store = [i \in IDs |-> NilType]
    /\ last = Call("", NoId, FilterAll, NoArg, NoResponse,
                   Result(<< >>, << >>, 0, FALSE))
    /\ known = [i \in IDs |-> ""]
    /\ deleted = {}
    /\ clean = TRUE
    /\ wire \in WireResponses(ListBodies) \cup WireResponses(ResourceBodies)
                \cup WireResponses({EmptyBody})

\* The response on the wire is one the transport can deliver to a request
\* whose bodies are of the given shape ("list", "resource" or "empty").
Fits(resp, shape) ==
    \/ resp.transport
    \/ resp.body.form \in {"readerr", "malformed"} /\ shape # "empty"
    \/ resp.body.form = "list" /\ (shape = "list" \/ resp.body.value = << >>)
                               /\ shape # "empty"
    \/ resp.body.form = "object" /\ shape = "resource"
    \/ resp.body.form = "empty" /\ shape = "empty"

\* One call of the client answered by the response on the wire.
Wire(op, id, filter, arg, shape) ==
    LET res == Handle(op, id, filter, arg, wire)
    IN  /\ Fits(wire, shape)
        /\ last' = Call(op, id, filter, arg, wire, res)
        /\ UNCHANGED <<store, known, deleted, clean, wire>>

WireList ==
    /\ last.op = ""
    /\ \E filter \in Filters :
           Wire("List", NoId, filter, NoArg, "list")

WireDelete ==
    /\ last.op = ""
    /\ \E id \in IDs :
           Wire("Delete", id, FilterAll, NoArg, "empty")

WireCreateIP ==
    /\ last.op = ""
    /\ \E arg \in Args("ip") :
           Wire("CreateIP", NoId, FilterAll, arg, "resource")

WireCreateCountry ==
    /\ last.op = ""
    /\ \E arg \in Args("country") :
           Wire("CreateCountry", NoId, FilterAll, arg, "resource")

WireGetIP ==
    /\ last.op = ""
    /\ \E id \in IDs :
           Wire("GetIP", id, FilterAll, NoArg, "resource")

WireGetCountry ==
    /\ last.op = ""
    /\ \E id \in IDs :
           Wire("GetCountry", id, FilterAll, NoArg, "resource")

WireUpdateIP ==
    /\ last.op = ""
    /\ \E arg \in Args("ip") :
           Wire("UpdateIP", arg.ID, FilterAll, arg, "empty")

WireUpdateCountry ==
    /\ last.op = ""
    /\ \E arg \in Args("country") :
           Wire("UpdateCountry", arg.ID, FilterAll, arg, "empty")

NextWire ==
    \/ WireList
    \/ WireDelete
    \/ WireCreateIP
    \/ WireCreateCountry
    \/ WireGetIP
    \/ WireGetCountry
    \/ WireUpdateIP
    \/ WireUpdateCountry

SpecWire == InitWire /\ [][NextWire]_vars

\* --------------------------------------------------------------- claims
\* The identifiers a Create has returned and no Delete has succeeded on since.
Live == {i \in IDs : known[i] # ""}

\* The round trip of the last call went through: the request reached the
\* service and its answer reached the base client.
Answered == ~last.resp.transport /\ last.resp.status # 503

\* C1 (as stated): once a Create has succeeded and returned a resource with
\* ID i, and no Delete of i has succeeded since, the matching Get(i)
\* succeeds (nil error, 2xx status) and returns a non-nil resource whose ID
\* is non-nil and equal to i.
C1_CreatedIsRetrievable ==
    (last.op \in Gets /\ known[last.id] = KindOf(last.op)) =>
        /\ ~last.err
        /\ last.status \in 200..299
        /\ last.ret # << >>
        /\ last.ret[1].ID # NoId
        /\ last.ret[1].ID = last.id

\* C1 (amended): under the same precondition the matching Get(i) returns
\* either a non-nil error with a nil resource, or a nil error with status
\* 200 and a non-nil resource whose ID is non-nil and equal to i; it
\* succeeds whenever the service still holds i and the round trip of the
\* Get goes through.
C1_RetrievableUnlessRoundTripFails ==
    (last.op \in Gets /\ known[last.id] = KindOf(last.op)) =>
        /\ last.err => last.ret = << >>
        /\ ~last.err => /\ last.status = 200
                        /\ last.ret # << >>
                        /\ last.ret[1].ID # NoId
                        /\ last.ret[1].ID = last.id
        /\ (store[last.id] # NilType /\ Answered) => ~last.err

\* A GetCountry of an identifier a CreateCountry returned has succeeded.
C1_Witness ==
    /\ last.op = "GetCountry"
    /\ known[last.id] = "country"
    /\ ~last.err
    /\ last.ret # << >>
    /\ last.ret[1].ID = last.id

\* C2: after Delete(i) has succeeded, every later GetIP(i) or GetCountry(i)
\* returns a nil resource together with a non-nil error, for as long as no
\* new resource is created under the same ID.
C2_DeletedIsNotRetrievable ==
    (last.op \in Gets /\ last.id \in deleted) =>
        (last.ret = << >> /\ last.err)

\* A GetIP of a deleted identifier was answered by the service and failed.
C2_Witness ==
    /\ last.op = "GetIP"
    /\ last.id \in deleted
    /\ ~last.resp.transport
    /\ last.resp.status = 404
    /\ last.err
    /\ last.ret = << >>

\* The resources of a successful List, as the set of their IDs.
ListedIds == {last.ret[1][k].ID : k \in 1..Len(last.ret[1])}

\* The list returned holds exactly the live resources, one entry each, each
\* in the Go type of the Create that made it.
ListsExactlyLive ==
    /\ last.ret # << >>
    /\ Len(last.ret[1]) = Cardinality(Live)
    /\ ListedIds = Live
    /\ \A k \in 1..Len(last.ret[1]) :
           last.ret[1][k].kind = known[last.ret[1][k].ID]

\* C3 (as stated): after any sequence of successful Create and Delete
\* operations, a List call with an empty filter succeeds and returns exactly
\* the resources that were created and not yet deleted, one entry each.
C3_ListReturnsCreated ==
    (last.op = "List" /\ last.filter = FilterAll /\ clean) =>
        (~last.err /\ ListsExactlyLive)

\* C3 (amended): after any sequence of successful Create and Delete
\* operations, a List call with an empty filter returns either a non-nil
\* error with a nil list, or a nil error and exactly the resources that were
\* created and not yet deleted, one entry each; it succeeds whenever its
\* round trip goes through.
C3_ListReturnsCreatedUnlessRoundTripFails ==
    (last.op = "List" /\ last.filter = FilterAll /\ clean) =>
        /\ last.err => last.ret = << >>
        /\ ~last.err => ListsExactlyLive
        /\ Answered => ~last.err

\* Two resources were created, none deleted, and List returned the two.
C3_Witness ==
    /\ last.op = "List"
    /\ last.filter = FilterAll
    /\ clean
    /\ ~last.err
    /\ Cardinality(Live) = 2
    /\ ListsExactlyLive
    /\ \E k \in 1..Len(last.ret[1]) : last.ret[1][k].kind = "ip"
    /\ \E k \in 1..Len(last.ret[1]) : last.ret[1][k].kind = "country"

\* The one status each operation expects.
ExpectedStatus(op) ==
    CASE op \in {"List", "GetIP", "GetCountry"} -> 200
      [] op \in Creates -> 201
      [] op \in Updates \cup {"Delete"} -> 204

\* C4: an operation returns a nil error only if the response status was
\* its expected code (200 for List, GetIP and GetCountry, 201 for CreateIP
\* and CreateCountry, 204 for UpdateIP, UpdateCountry and Delete); for any
\* other status it returns a non-nil error, a nil resource and the status
\* it received.
C4_ExpectedStatusGatesSuccess ==
    (last.op # "" /\ ~last.panic) =>
        /\ ~last.err =>
               (~last.resp.transport /\ last.resp.status = ExpectedStatus(last.op))
        /\ (~last.resp.transport /\ last.resp.status # ExpectedStatus(last.op)) =>
               (last.err /\ last.ret = << >> /\ last.status = last.resp.status)

\* UpdateIP received 200, a status another operation expects, and returned
\* an error with that status.
C4_Witness ==
    /\ last.op = "UpdateIP"
    /\ ~last.panic
    /\ ~last.resp.transport
    /\ last.resp.status = 200
    /\ last.err
    /\ last.status = 200

\* The round trip of the last call failed: the transport failed or the
\* status is not among the valid codes of the request.
RoundTripFailed ==
    /\ last.sent # << >>
    /\ \/ last.resp.transport
       \/ last.resp.status \notin last.sent[1].valid

\* C5: every invocation hands at most one request to the base client, and
\* when that request fails (transport failure or unexpected status) the
\* operation returns the error without issuing any further request.
C5_SingleRoundTripNoRetry ==
    last.op # "" =>
        /\ Len(last.sent) <= 1
        /\ RoundTripFailed => (last.err /\ Len(last.sent) = 1)

\* A Delete whose transport failed returned the error after one request.
C5_Witness ==
    /\ last.op = "Delete"
    /\ last.resp.transport
    /\ last.err
    /\ Len(last.sent) = 1

\* The value array of the response of the last call, a List that received a
\* 200 response whose body is a JSON object with a value array.
HasValueArray ==
    /\ last.op = "List"
    /\ ~last.resp.transport
    /\ last.resp.status = 200
    /\ last.resp.body.form = "list"
    /\ last.resp.body.value # << >>
ValueArray == last.resp.body.value[1]

\* C6: for a successful List whose value array holds elements typed country
\* or IP, the returned list has one entry per element, in the order of the
\* response, and the entry at each position is a CountryNamedLocation
\* exactly when that element's discriminator is the country type and an
\* IPNamedLocation exactly when it is the IP type.
C6_ListDispatchesOnDiscriminator ==
    (/\ HasValueArray
     /\ ~last.err
     /\ \A k \in 1..Len(ValueArray) : ValueArray[k].otype \in {TypeCountry, TypeIP}) =>
        /\ last.ret # << >>
        /\ Len(last.ret[1]) = Len(ValueArray)
        /\ \A k \in 1..Len(ValueArray) :
               /\ last.ret[1][k].kind = "country" <=> ValueArray[k].otype = TypeCountry
               /\ last.ret[1][k].kind = "ip" <=> ValueArray[k].otype = TypeIP
               /\ last.ret[1][k].ODataType = ValueArray[k].otype
               /\ last.ret[1][k].ID = ValueArray[k].id

\* A List of an IP element followed by a country element with another ID
\* returned an IP location followed by a country location.
C6_Witness ==
    /\ HasValueArray
    /\ ~last.err
    /\ Len(ValueArray) = 2
    /\ ValueArray[1].otype = TypeIP /\ ValueArray[1].id = 2
    /\ ValueArray[2].otype = TypeCountry /\ ValueArray[2].id = 1
    /\ last.ret[1][1].kind = "ip" /\ last.ret[1][1].ID = 2
    /\ last.ret[1][2].kind = "country" /\ last.ret[1][2].ID = 1

\* C7: whenever GetIP(id) returns a nil error the remote resource with that
\* id has the IP discriminator, and whenever GetCountry(id) returns a nil
\* error it has the country discriminator; GetIP on the ID of a resource
\* created by CreateCountry does not succeed.
C7_GetReturnsItsOwnType ==
    /\ (last.op = "GetIP" /\ ~last.err) =>
           (store[last.id] = TypeIP /\ last.ret[1].ODataType = TypeIP)
    /\ (last.op = "GetCountry" /\ ~last.err) =>
           (store[last.id] = TypeCountry /\ last.ret[1].ODataType = TypeCountry)

\* The discriminator of the operation.
TypeOfOp(op) == IF KindOf(op) = "ip" THEN TypeIP ELSE TypeCountry

C9_NoValueIsEmptyList ==
    /\ (/\ last.op = "List"
        /\ ~last.resp.transport
        /\ last.resp.status = 200
        /\ last.resp.body.form = "list"
        /\ last.resp.body.value = << >>) =>
           (last.ret = << << >> >> /\ last.status = 200 /\ ~last.err)
    /\ (last.op = "List" /\ ~last.err) => last.ret # << >>

\* A List whose 200 response had no value array returned an empty list.
C9_Witness ==
    /\ last.op = "List"
    /\ last.resp.status = 200
    /\ last.resp.body.form = "list"
    /\ last.resp.body.value = << >>
    /\ last.ret = << << >> >>
    /\ ~last.err

\* The element carries one of the two discriminators List has a model for.
Classified(e) == e.shape = "object" /\ e.otype \in {TypeCountry, TypeIP}

\* A json.Unmarshal that List applies to the element fails: the element is
\* no object, its discriminator is no string, or it is classified and its
\* fields do not fit the model.
FailsToDecode(e) ==
    \/ e.shape # "object"
    \/ e.otype = BadType
    \/ Classified(e) /\ e.id = BadId

\* C10: an element whose discriminator is absent or not one of the two
\* known types produces no entry and no error, so that the length of a
\* successful List's result is the number of elements with a known
\* discriminator; an element that fails to decode makes the whole List
\* return nil with an error, never a partial list.
C10_ListDropsUnclassified ==
    HasValueArray =>
        IF \E k \in 1..Len(ValueArray) : FailsToDecode(ValueArray[k])
        THEN last.ret = << >> /\ last.err
        ELSE /\ ~last.err
             /\ last.ret # << >>
             /\ Len(last.ret[1]) =
                    Cardinality({k \in 1..Len(ValueArray) : Classified(ValueArray[k])})

\* A List of an element with an unknown discriminator followed by an IP
\* element returned one entry and no error.
C10_Witness ==
    /\ HasValueArray
    /\ Len(ValueArray) = 2
    /\ ValueArray[1].otype = TypeOther
    /\ ValueArray[2].otype = TypeIP
    /\ ~last.err
    /\ Len(last.ret[1]) = 1

\* C11: UpdateIP and UpdateCountry address the PATCH to the named location
\* whose ID the given location holds; when that ID is nil the operation
\* returns an error to the caller and sends no request, rather than
\* aborting the program.
C11_UpdateWithoutIdReturnsError ==
    (last.op \in Updates) =>
        /\ last.sent # << >> =>
               /\ last.sent[1].method = "PATCH"
               /\ last.sent[1].id = last.arg.ID
        /\ last.arg.ID = NoId =>
               /\ ~last.panic
               /\ last.err
               /\ last.sent = << >>

====
